---- MODULE Spec2Model ----
(***************************************************************************)
(* Model of the GStreamer aging-test orchestrator gst_cycle.cpp.           *)
(*                                                                         *)
(* The control thread (main + the GMainLoop callbacks) is a sequential     *)
(* program whose position is pc.  The engine's streaming thread runs       *)
(* on_handoff, and SIGINT / SIGTERM arrive asynchronously.                 *)
(*                                                                         *)
(* Two builds of the orchestrator are in the repository:                   *)
(*   "v110"   src/gstreamer_aging_test_1.10.0/src/gst_cycle.cpp            *)
(*   "sdk191" src/hailo-sdk191/gstreamer_aging_test/src/gst_cycle.cpp      *)
(* They share the state machine; sdk191 has no --phase option (it always   *)
(* walks the four phases), keeps no tee pads and adds no bus watch.        *)
(*                                                                         *)
(* A connector is a tee request pad.  The orchestrator's "release" of a    *)
(* connector is gst_object_unref of the reference it got from              *)
(* gst_element_request_pad_simple; pads[i].unrefs counts those calls.      *)
(***************************************************************************)
EXTENDS Integers, Sequences, FiniteSets, TLC

\* Bounds of the model (not program constants).
MaxTicks == 6
MaxFrames == 2
MaxClock == 23
MaxRebuildSeconds == 1
MaxBurst == 151
MaxPrevious == 2

\* Dwell durations, seconds.
PlayingDwell == 10
ShortDwell == 1
FpsPeriod == 5
\* The gst_element_get_state timeout of set_pipeline_state, seconds.
StateWait == 3
\* The divisor of `double fps = diff / 5.0`.
FpsDivisor == 5

Builds == {"v110", "sdk191"}
\* Command-line words are sequences of characters.
OptPhase == <<"-", "-", "p", "h", "a", "s", "e">>
OptHelp == <<"-", "-", "h", "e", "l", "p">>
OptH == <<"-", "h">>

\* Texts tried as the word after --phase.
PhaseTexts ==
    {<<"3">>, <<"4">>, <<"2">>, <<"5">>, <<"3", "x">>, <<"4", ".", "5">>,
     <<" ", "4">>, <<"-", "3">>, <<"x">>, <<>>}

\* argv[1..] of the runs explored: no option, --phase with each text,
\* --phase as the last word, --help, -h, and --phase given twice.
CommandLines ==
    {<<>>, <<OptPhase>>, <<OptHelp>>, <<OptH>>,
     <<OptPhase, <<"5">>, OptPhase, <<"4">>>>}
    \cup {<<OptPhase, t>> : t \in PhaseTexts}

Phase == {"NULL_STATE", "PLAYING", "PAUSED", "READY"}
GstState == {"NULL", "READY", "PAUSED", "PLAYING"}

\* What the engine can answer to one tee-branch hookup:
\*   no_pad    gst_element_request_pad_simple returned NULL
\*   no_sink   the pad was requested, the queue has no sink pad
\*   link_fail the pad was requested, gst_pad_link failed
\*   ok        requested and linked
LinkOutcomes == {"no_pad", "no_sink", "link_fail", "ok"}

\* What the engine can answer to one state change followed by the bounded
\* gst_element_get_state wait.
StateOutcomes == {"reached", "timeout"}

VARIABLES
    build,            \* which build runs
    phase_mode,       \* static int phase_mode
    argv,             \* the command-line words main's loop has not reached yet
    sigint_handler,   \* std::signal(SIGINT, handle_sigint) has been called
    timed,            \* durations are observed (the clock runs) in this run
    clock,            \* seconds since main armed the first state timer
    busy,             \* seconds of them spent inside state_machine_cb
    pc,               \* position of the control thread
    exit_code,        \* value returned by main (meaningful when pc = "done")
    loop,             \* GMainLoop *loop is non-null
    is_running,       \* the GMainLoop's is_running flag
    sources,          \* timeout sources attached to the main context
    next_source_id,   \* next id g_timeout_add_seconds hands out
    state_timer_id,   \* static guint state_timer_id
    dispatching,      \* id of the state timer source being dispatched, 0 if none
    pipeline,         \* static GstElement *pipeline (0 = nullptr, else index in graphs)
    graphs,           \* every pipeline the engine ever built
    pads,             \* every tee request pad the engine ever handed out
    tee_req_pad_udp,  \* static GstPad *tee_req_pad_udp (0 = nullptr)
    tee_req_pad_fps,  \* static GstPad *tee_req_pad_fps (0 = nullptr)
    phase,            \* static Phase phase
    current_stage,    \* static const char *current_stage
    state_tick,       \* static int state_tick
    set_state_calls,  \* gst_element_set_state calls made so far
    handoffs,         \* handoff signals the identity element has emitted
    frame_count,      \* std::atomic<uint64_t> frame_count
    last_frame_count, \* static uint64_t last_frame_count
    fps_now,          \* local `now` of fps_log_cb
    fps_diff,         \* `diff` of the last "[FPS]" line (fps = diff / 5.0)
    fps_total,        \* sum of the diffs the "[FPS]" lines have reported so far
    bus_pending,      \* a message waits on the pipeline's bus for the bus watch
    sigint_seen,      \* a SIGINT was handled by handle_sigint
    terminated        \* the process was ended by a signal's default action

vars == <<build, phase_mode, argv, sigint_handler, timed, clock, busy, pc, exit_code, loop, is_running, sources,
          next_source_id, state_timer_id, dispatching, pipeline, graphs, pads,
          tee_req_pad_udp, tee_req_pad_fps, phase, current_stage, state_tick,
          set_state_calls, handoffs, frame_count, last_frame_count, fps_now, fps_diff,
          fps_total,
          bus_pending, sigint_seen, terminated>>

ctlVars == <<phase, current_stage, state_tick, set_state_calls>>
gstVars == <<pipeline, graphs, pads, tee_req_pad_udp, tee_req_pad_fps>>
timerVars == <<sources, next_source_id, state_timer_id, dispatching>>
fpsVars == <<handoffs, frame_count, last_frame_count, fps_now, fps_diff, fps_total>>
loopVars == <<loop, is_running>>
cfgVars == <<build, phase_mode, argv, sigint_handler, timed>>
clockVars == <<clock, busy>>

-----------------------------------------------------------------------------
\* Engine objects

\* gst_object_unref(pad): drops the orchestrator's reference to a request pad.
gst_object_unref_pad(ps, p) ==
    [ps EXCEPT ![p].unrefs = @ + 1]

\* Variant in which the pipeline is never unreferenced.
gst_object_unref_pipeline_missing(gs, g) == gs

\* gst_object_unref(pipeline): the last reference goes, the pipeline is
\* destroyed.  On nullptr GLib logs a critical and does nothing.
gst_object_unref_pipeline(gs, g) ==
    IF g = 0 THEN gs ELSE [gs EXCEPT ![g].alive = FALSE, ![g].unrefs = @ + 1]

\* gst_element_set_state + gst_element_get_state.  A change to NULL is
\* synchronous; any other target may not be reached within the wait.  On
\* nullptr both calls log a critical and do nothing.
gst_element_set_state(gs, g, target, outcome) ==
    IF g = 0 THEN gs
    ELSE [gs EXCEPT ![g].target = target,
                    ![g].cur = IF target = "NULL" \/ outcome = "reached"
                               THEN target ELSE @]

\* Variant without the gst_object_unref(tee_src) of the failure paths.
link_tee_keeps_failed_pad(ps, g, branch, outcome) ==
    IF outcome = "no_pad"
    THEN [pads |-> ps, ret |-> 0]
    ELSE LET p == Len(ps) + 1
             requested == Append(ps, [owner |-> g, branch |-> branch,
                                      linked |-> outcome = "ok", unrefs |-> 0])
         IN  [pads |-> requested, ret |-> IF outcome = "ok" THEN p ELSE 0]

\* Variant that drops the pad reference after linking, as link_tee_to_queue
\* does, and still returns the pad to be released later.
link_tee_unrefs_kept_pad(ps, g, branch, outcome) ==
    IF outcome = "no_pad"
    THEN [pads |-> ps, ret |-> 0]
    ELSE LET p == Len(ps) + 1
             requested == Append(ps, [owner |-> g, branch |-> branch,
                                      linked |-> outcome = "ok", unrefs |-> 0])
         IN  [pads |-> gst_object_unref_pad(requested, p),
              ret |-> IF outcome = "ok" THEN p ELSE 0]

\* link_tee_to_queue_and_keep_pad(tee, queue) for a branch of pipeline g:
\* the pads afterwards and the pad returned (0 = nullptr).
link_tee_to_queue_and_keep_pad(ps, g, branch, outcome) ==
    IF outcome = "no_pad"
    THEN [pads |-> ps, ret |-> 0]
    ELSE LET p == Len(ps) + 1
             requested == Append(ps, [owner |-> g, branch |-> branch,
                                      linked |-> outcome = "ok", unrefs |-> 0])
         IN  IF outcome = "ok"
             THEN [pads |-> requested, ret |-> p]
             ELSE [pads |-> gst_object_unref_pad(requested, p), ret |-> 0]

\* link_tee_to_queue(tee, queue) of the sdk191 build: the pad reference is
\* dropped at once whether or not the link succeeded; returns a bool.
link_tee_to_queue(ps, g, branch, outcome) ==
    IF outcome = "no_pad"
    THEN [pads |-> ps, ret |-> FALSE]
    ELSE LET p == Len(ps) + 1
             requested == Append(ps, [owner |-> g, branch |-> branch,
                                      linked |-> outcome = "ok", unrefs |-> 0])
         IN  [pads |-> gst_object_unref_pad(requested, p), ret |-> outcome = "ok"]

\* A pipeline fresh from gst_parse_launch; watches is the number of
\* gst_bus_add_watch(bus, bus_cb, ...) calls made on its bus.
NewGraph(watches) ==
    [alive |-> TRUE, unrefs |-> 0, target |-> "NULL", cur |-> "NULL",
     watches |-> watches]

\* What can happen inside one create_pipeline call.
CreateOutcomes ==
    [kind : {"parse_fail", "no_tee", "elem_fail"}, udp : {"ok"}, fps : {"ok"}]
    \cup [kind : {"built"}, udp : LinkOutcomes, fps : LinkOutcomes]

\* Variant that treats a failed tee -> UDP queue link as fatal.
create_pipeline_udp_required(gs, ps, o) ==
    LET g == Len(gs) + 1
        parsed == Append(gs, NewGraph(1))
        failed(gs2, ps2) == [graphs |-> gs2, pads |-> ps2, pipe |-> 0, udp |-> 0, fps |-> 0]
    IN  CASE o.kind = "parse_fail" -> failed(gs, ps)
          [] o.kind \in {"no_tee", "elem_fail"} ->
                failed(gst_object_unref_pipeline(parsed, g), ps)
          [] OTHER ->
                LET u == link_tee_to_queue_and_keep_pad(ps, g, "udp", o.udp)
                    f == link_tee_to_queue_and_keep_pad(u.pads, g, "fps", o.fps)
                IN  IF u.ret = 0
                    THEN failed(gst_object_unref_pipeline(parsed, g), f.pads)
                    ELSE [graphs |-> parsed, pads |-> f.pads, pipe |-> g,
                          udp |-> u.ret, fps |-> f.ret]

\* create_pipeline of the v110 build.  Result: the engine objects afterwards,
\* the pipeline returned (0 = nullptr) and the two recorded tee pads, which
\* the function resets on entry.
create_pipeline(gs, ps, o) ==
    LET g == Len(gs) + 1
        parsed == Append(gs, NewGraph(1))
        failed(gs2) == [graphs |-> gs2, pads |-> ps, pipe |-> 0, udp |-> 0, fps |-> 0]
    IN  CASE o.kind = "parse_fail" -> failed(gs)
          [] o.kind \in {"no_tee", "elem_fail"} ->
                failed(gst_object_unref_pipeline(parsed, g))
          [] OTHER ->
                LET u == link_tee_to_queue_and_keep_pad(ps, g, "udp", o.udp)
                    f == link_tee_to_queue_and_keep_pad(u.pads, g, "fps", o.fps)
                IN  [graphs |-> parsed, pads |-> f.pads, pipe |-> g,
                     udp |-> u.ret, fps |-> f.ret]

\* create_pipeline of the sdk191 build: only gst_parse_launch can make it
\* return nullptr; no bus watch, no pad is kept.
create_pipeline_sdk191(gs, ps, o) ==
    LET g == Len(gs) + 1
        parsed == Append(gs, NewGraph(0))
    IN  IF o.kind = "parse_fail"
        THEN [graphs |-> gs, pads |-> ps, pipe |-> 0, udp |-> 0, fps |-> 0]
        ELSE LET u == link_tee_to_queue(ps, g, "udp", o.udp)
                 f == link_tee_to_queue(u.pads, g, "fps", o.fps)
             IN  [graphs |-> parsed, pads |-> f.pads, pipe |-> g,
                  udp |-> 0, fps |-> 0]

\* The outcomes that can be told apart in each build.
BuildOutcomes(b) ==
    IF b = "sdk191"
    THEN {o \in CreateOutcomes : o.kind \in {"parse_fail", "built"}}
    ELSE CreateOutcomes

CreatePipeline(b, gs, ps, o) ==
    IF b = "sdk191" THEN create_pipeline_sdk191(gs, ps, o)
    ELSE create_pipeline(gs, ps, o)

\* Variant that clears the pointer without releasing the pad.
release_tee_req_pad_missing(ps, p) == ps

\* if (pad) { gst_object_unref(pad); pad = nullptr; }
release_tee_req_pad(ps, p) ==
    IF p # 0 THEN gst_object_unref_pad(ps, p) ELSE ps

\* A pipeline going to NULL sets its bus flushing: pending messages are
\* dropped.
flushed(pending, target) == IF target = "NULL" THEN FALSE ELSE pending

\* Variant that asks again when the wait ended short of the target.
set_pipeline_state_retries(gs, g, state, name, outcome) ==
    [current_stage |-> name,
     graphs |-> gst_element_set_state(gs, g, state, outcome),
     calls |-> IF outcome = "timeout" /\ state # "NULL" THEN 2 ELSE 1]

\* set_pipeline_state(state, name): the label, then one gst_element_set_state
\* and one gst_element_get_state; the results are only printed.
set_pipeline_state(gs, g, state, name, outcome) ==
    [current_stage |-> name,
     graphs |-> gst_element_set_state(gs, g, state, outcome),
     calls |-> 1]

\* g_timeout_add_seconds(seconds, cb, nullptr) at time now: the new source,
\* ready once the clock has reached due.
g_timeout_add_seconds(id, cb, seconds, now) ==
    [id |-> id, cb |-> cb, secs |-> seconds, due |-> now + seconds]

\* arm_next_state_timer(seconds) at time now: removes the source
\* state_timer_id names, then adds a one-shot state_machine_cb source.
arm_next_state_timer(srcs, tid, nid, seconds, now) ==
    LET kept == IF tid # 0 THEN {s \in srcs : s.id # tid} ELSE srcs
    IN  [sources |-> kept \cup {g_timeout_add_seconds(nid, "state", seconds, now)},
         state_timer_id |-> nid,
         next_source_id |-> nid + 1]

-----------------------------------------------------------------------------
\* The state machine's switch, as a table

\* Variant that ignores phase_mode and always visits READY.
next_phase_always_ready(ph, mode) ==
    CASE ph = "NULL_STATE" -> "PLAYING"
      [] ph = "PLAYING" -> "PAUSED"
      [] ph = "PAUSED" -> "READY"
      [] ph = "READY" -> "NULL_STATE"

\* Variant that ignores phase_mode and never visits READY.
next_phase_never_ready(ph, mode) ==
    CASE ph = "NULL_STATE" -> "PLAYING"
      [] ph = "PLAYING" -> "PAUSED"
      [] ph = "PAUSED" -> "NULL_STATE"
      [] ph = "READY" -> "NULL_STATE"

\* The phase a firing in phase ph moves to.
next_phase(ph, mode) ==
    CASE ph = "NULL_STATE" -> "PLAYING"
      [] ph = "PLAYING" -> "PAUSED"
      [] ph = "PAUSED" -> IF mode = 4 THEN "READY" ELSE "NULL_STATE"
      [] ph = "READY" -> "NULL_STATE"

\* Variant in which the rebuild only takes the pipeline down to READY.
stage_of_stops_at_ready(ph) ==
    CASE ph = "NULL_STATE" -> "READY"
      [] ph = "PLAYING" -> "PLAYING"
      [] ph = "PAUSED" -> "PAUSED"
      [] ph = "READY" -> "READY"

\* The GstState requested when entering a phase, which is also its label.
stage_of(ph) ==
    CASE ph = "NULL_STATE" -> "NULL"
      [] ph = "PLAYING" -> "PLAYING"
      [] ph = "PAUSED" -> "PAUSED"
      [] ph = "READY" -> "READY"

\* Variant that arms every phase for the long duration.
dwell_of_always_long(ph) == PlayingDwell

\* Variant that arms every phase for the short duration.
dwell_of_always_short(ph) == ShortDwell

\* The seconds the timer is armed for after entering a phase.
dwell_of(ph) ==
    IF ph = "PLAYING" THEN PlayingDwell ELSE ShortDwell

-----------------------------------------------------------------------------
\* Option parsing

DigitValue(c) ==
    CASE c = "0" -> 0 [] c = "1" -> 1 [] c = "2" -> 2 [] c = "3" -> 3
      [] c = "4" -> 4 [] c = "5" -> 5 [] c = "6" -> 6 [] c = "7" -> 7
      [] c = "8" -> 8 [] c = "9" -> 9 [] OTHER -> -1

\* The value of the longest run of digits at the start of s, continuing acc;
\* seen tells whether a digit was consumed.
RECURSIVE ParseDigits(_, _, _)
ParseDigits(s, acc, seen) ==
    IF s # <<>> /\ DigitValue(Head(s)) >= 0
    THEN ParseDigits(Tail(s), acc * 10 + DigitValue(Head(s)), TRUE)
    ELSE [ok |-> seen, val |-> acc]

RECURSIVE SkipSpaces(_)
SkipSpaces(s) ==
    IF s # <<>> /\ Head(s) = " " THEN SkipSpaces(Tail(s)) ELSE s

\* std::stoi(text): leading white space, an optional sign, then digits up to
\* the first other character, which is ignored with all that follows it.
\* ok is FALSE where std::stoi throws std::invalid_argument (no digit).  The
\* texts tried are too short for std::out_of_range.
stoi(text) ==
    LET s == SkipSpaces(text)
        signed == s # <<>> /\ Head(s) \in {"+", "-"}
        d == ParseDigits(IF signed THEN Tail(s) ELSE s, 0, FALSE)
    IN  [ok |-> d.ok,
         val |-> IF signed /\ Head(s) = "-" THEN 0 - d.val ELSE d.val]

\* The for loop over argv at the head of main: what it ends with.
\*   help   print_help and return 0
\*   threw  std::stoi threw; nothing catches it
\*   parsed the loop ran to argc, phase_mode is mode
RECURSIVE parse_options(_, _)
parse_options(args, mode) ==
    IF args = <<>> THEN [kind |-> "parsed", mode |-> mode]
    ELSE IF Head(args) \in {OptHelp, OptH} THEN [kind |-> "help", mode |-> mode]
    ELSE IF Head(args) = OptPhase /\ Len(args) >= 2
         THEN LET r == stoi(args[2])
              IN  IF r.ok THEN parse_options(Tail(Tail(args)), r.val)
                  ELSE [kind |-> "threw", mode |-> mode]
    ELSE parse_options(Tail(args), mode)

-----------------------------------------------------------------------------
\* The globals' initialisers and the process' inputs.
InitProcess ==
    /\ build \in Builds
    /\ phase_mode = (IF build = "sdk191" THEN 4 ELSE 3)
    /\ argv \in (IF build = "sdk191" THEN {<<>>} ELSE CommandLines)
    /\ sigint_handler = FALSE
    /\ clock = 0
    /\ busy = 0
    /\ pc = "main"
    /\ exit_code = 0
    /\ loop = FALSE
    /\ is_running = FALSE
    /\ sources = {}
    /\ next_source_id = 1
    /\ state_timer_id = 0
    /\ dispatching = 0
    /\ pipeline = 0
    /\ graphs = <<>>
    /\ pads = <<>>
    /\ tee_req_pad_udp = 0
    /\ tee_req_pad_fps = 0
    /\ phase = "NULL_STATE"
    /\ current_stage = "NULL"
    /\ state_tick = 0
    /\ set_state_calls = 0
    /\ handoffs = 0
    /\ frame_count = 0
    /\ last_frame_count = 0
    /\ fps_now = 0
    /\ fps_diff = 0
    /\ fps_total = 0
    /\ bus_pending = FALSE
    /\ sigint_seen = FALSE
    /\ terminated = FALSE

\* Runs in which durations are abstracted away: the clock stands still, a
\* timer can fire whenever the loop is idle and no call takes time.
Init == InitProcess /\ timed = FALSE

\* Runs against the clock: a timer fires once it is due, the loop does not
\* let a due timer wait, and the blocking calls of a firing take time.
TimedInit == InitProcess /\ timed = TRUE

\* Seconds a call takes in this run.
elapsed(seconds) == IF timed THEN seconds ELSE 0

\* The source can be dispatched now.
Ready(s) == timed => s.due <= clock

\* Seconds set_pipeline_state blocks: the gst_element_get_state wait runs to
\* its timeout, or the state is there at once (to the second). With no
\* pipeline both calls fail their argument check and return at once.
wait_seconds(g, state, outcome) ==
    IF g # 0 /\ outcome = "timeout" /\ state # "NULL" THEN StateWait ELSE 0

\* The process has ended: main returned, or a signal's default action ran.
Ended == pc = "done" \/ terminated

-----------------------------------------------------------------------------
\* main, up to g_main_loop_run

\* Option parsing, the phase_mode check, gst_init, std::signal.  The sdk191
\* build has no options and no check.  An exception nothing catches ends the
\* process through std::terminate and abort.
main_check ==
    /\ ~terminated
    /\ pc = "main"
    /\ LET r == IF build = "v110" THEN parse_options(argv, phase_mode)
                ELSE [kind |-> "parsed", mode |-> phase_mode]
       IN  CASE r.kind = "help" ->
                  /\ pc' = "done" /\ exit_code' = 0
                  /\ UNCHANGED <<phase_mode, argv, sigint_handler, terminated>>
             [] r.kind = "threw" ->
                  /\ terminated' = TRUE
                  /\ UNCHANGED <<phase_mode, argv, sigint_handler, pc, exit_code>>
             [] OTHER ->
                  /\ phase_mode' = r.mode
                  /\ argv' = <<>>
                  /\ IF r.mode # 3 /\ r.mode # 4
                     THEN /\ pc' = "done" /\ exit_code' = -1
                          /\ UNCHANGED sigint_handler
                     ELSE /\ pc' = "create"
                          /\ sigint_handler' = TRUE
                          /\ UNCHANGED exit_code
                  /\ UNCHANGED terminated
    /\ UNCHANGED <<clockVars, timed, bus_pending, build, loopVars, timerVars, gstVars,
                   ctlVars, fpsVars,
                   sigint_seen>>

\* Variant that goes on to g_main_loop_new whatever create_pipeline returned.
main_create_ignores_failure ==
    /\ ~terminated
    /\ pc = "create"
    /\ \E o \in BuildOutcomes(build) :
         LET r == CreatePipeline(build, graphs, pads, o)
         IN  /\ graphs' = r.graphs
             /\ pads' = r.pads
             /\ pipeline' = r.pipe
             /\ tee_req_pad_udp' = r.udp
             /\ tee_req_pad_fps' = r.fps
             /\ pc' = "loop_new"
             /\ UNCHANGED exit_code
    /\ UNCHANGED <<clockVars, bus_pending, cfgVars, loopVars, timerVars, ctlVars, fpsVars,
                   sigint_seen, terminated>>

\* pipeline = create_pipeline(...); if (!pipeline) return -1;
main_create ==
    /\ ~terminated
    /\ pc = "create"
    /\ \E o \in BuildOutcomes(build) :
         LET r == CreatePipeline(build, graphs, pads, o)
         IN  /\ graphs' = r.graphs
             /\ pads' = r.pads
             /\ pipeline' = r.pipe
             /\ tee_req_pad_udp' = r.udp
             /\ tee_req_pad_fps' = r.fps
             /\ IF r.pipe = 0
                THEN pc' = "done" /\ exit_code' = -1
                ELSE pc' = "loop_new" /\ UNCHANGED exit_code
    /\ UNCHANGED <<clockVars, bus_pending, cfgVars, loopVars, timerVars, ctlVars, fpsVars,
                   sigint_seen, terminated>>

\* g_main_loop_new; g_timeout_add_seconds(5, fps_log_cb); arm_next_state_timer(1)
main_loop_new ==
    /\ ~terminated
    /\ pc = "loop_new"
    /\ loop' = TRUE
    /\ LET withFps == sources \cup
                        {g_timeout_add_seconds(next_source_id, "fps", FpsPeriod, clock)}
           t == arm_next_state_timer(withFps, state_timer_id, next_source_id + 1,
                                     ShortDwell, clock)
       IN  /\ sources' = t.sources
           /\ state_timer_id' = t.state_timer_id
           /\ next_source_id' = t.next_source_id
    /\ pc' = "run"
    /\ UNCHANGED <<clockVars, bus_pending, cfgVars, is_running, dispatching, gstVars,
                   ctlVars, fpsVars,
                   exit_code, sigint_seen, terminated>>

\* Entry of g_main_loop_run: the loop is marked running.
main_run ==
    /\ ~terminated
    /\ pc = "run"
    /\ is_running' = TRUE
    /\ pc' = "loop"
    /\ UNCHANGED <<clockVars, bus_pending, cfgVars, loop, timerVars, gstVars, ctlVars, fpsVars,
                   exit_code, sigint_seen, terminated>>

-----------------------------------------------------------------------------
\* state_machine_cb

\* One firing of the state timer, up to the end of set_pipeline_state; the
\* three non-rebuild transitions run to their return here.
state_machine_cb ==
    /\ ~terminated
    /\ pc = "loop"
    /\ is_running
    /\ state_tick < MaxTicks
    /\ \E s \in sources, outcome \in StateOutcomes :
         /\ s.cb = "state"
         /\ Ready(s)
         /\ state_tick' = state_tick + 1
         /\ LET nxt == next_phase(phase, phase_mode)
                st == set_pipeline_state(graphs, pipeline, stage_of(nxt), stage_of(nxt), outcome)
                w == elapsed(wait_seconds(pipeline, stage_of(nxt), outcome))
                t == arm_next_state_timer(sources, state_timer_id, next_source_id,
                                          dwell_of(nxt), clock + w)
            IN  /\ current_stage' = st.current_stage
                /\ clock' = clock + w
                /\ busy' = busy + w
                /\ graphs' = st.graphs
                /\ set_state_calls' = set_state_calls + st.calls
                /\ bus_pending' = flushed(bus_pending, stage_of(nxt))
                /\ IF nxt = "NULL_STATE"
                   THEN /\ pc' = IF build = "sdk191" THEN "sm_unref" ELSE "sm_release"
                        /\ dispatching' = s.id
                        /\ UNCHANGED <<phase, sources, state_timer_id, next_source_id>>
                   ELSE /\ phase' = nxt
                        /\ sources' = t.sources \ {s}
                        /\ state_timer_id' = t.state_timer_id
                        /\ next_source_id' = t.next_source_id
                        /\ pc' = "loop"
                        /\ UNCHANGED dispatching
    /\ UNCHANGED <<cfgVars, loopVars, pipeline, pads, tee_req_pad_udp, tee_req_pad_fps,
                   fpsVars, exit_code, sigint_seen, terminated>>

\* Variant that unrefs the recorded pads and keeps the pointers.
state_machine_cb_release_keeps_handles ==
    /\ ~terminated
    /\ pc = "sm_release"
    /\ pads' = release_tee_req_pad(release_tee_req_pad(pads, tee_req_pad_udp), tee_req_pad_fps)
    /\ pc' = "sm_unref"
    /\ UNCHANGED <<clockVars, bus_pending, cfgVars, loopVars, timerVars, pipeline, graphs,
                   tee_req_pad_udp, tee_req_pad_fps, ctlVars, fpsVars, exit_code,
                   sigint_seen, terminated>>

\* Variant that arms the next state timer before the rebuild is done.
state_machine_cb_release_arms_early ==
    /\ ~terminated
    /\ pc = "sm_release"
    /\ pads' = release_tee_req_pad(release_tee_req_pad(pads, tee_req_pad_udp), tee_req_pad_fps)
    /\ tee_req_pad_udp' = 0
    /\ tee_req_pad_fps' = 0
    /\ sources' = sources \cup
                    {g_timeout_add_seconds(next_source_id, "state", ShortDwell, clock)}
    /\ state_timer_id' = next_source_id
    /\ next_source_id' = next_source_id + 1
    /\ pc' = "sm_unref"
    /\ UNCHANGED <<clockVars, bus_pending, cfgVars, loopVars, dispatching, pipeline, graphs,
                   ctlVars, fpsVars, exit_code, sigint_seen, terminated>>

\* Rebuild: both recorded tee pads are released and cleared.
state_machine_cb_release ==
    /\ ~terminated
    /\ pc = "sm_release"
    /\ pads' = release_tee_req_pad(release_tee_req_pad(pads, tee_req_pad_udp), tee_req_pad_fps)
    /\ tee_req_pad_udp' = 0
    /\ tee_req_pad_fps' = 0
    /\ pc' = "sm_unref"
    /\ UNCHANGED <<clockVars, bus_pending, cfgVars, loopVars, timerVars, pipeline, graphs,
                   ctlVars,
                   fpsVars,
                   exit_code, sigint_seen, terminated>>

\* Rebuild: gst_object_unref(pipeline).  The variable keeps the old pointer
\* until create_pipeline returns.
state_machine_cb_unref ==
    /\ ~terminated
    /\ pc = "sm_unref"
    /\ graphs' = gst_object_unref_pipeline(graphs, pipeline)
    /\ pc' = "sm_create"
    /\ UNCHANGED <<clockVars, bus_pending, cfgVars, loopVars, timerVars, pipeline, pads,
                   tee_req_pad_udp,
                   tee_req_pad_fps, ctlVars, fpsVars, exit_code, sigint_seen, terminated>>

\* Variant of the rebuild's last step that also zeroes state_tick.
state_machine_cb_create_resets_tick ==
    /\ ~terminated
    /\ pc = "sm_create"
    /\ \E o \in BuildOutcomes(build) :
         LET r == CreatePipeline(build, graphs, pads, o)
         IN  /\ graphs' = r.graphs
             /\ pads' = r.pads
             /\ pipeline' = r.pipe
             /\ tee_req_pad_udp' = r.udp
             /\ tee_req_pad_fps' = r.fps
    /\ phase' = "NULL_STATE"
    /\ \E r \in 0..elapsed(MaxRebuildSeconds) :
         LET t == arm_next_state_timer(sources, state_timer_id, next_source_id,
                                       ShortDwell, clock + r)
         IN  /\ clock' = clock + r
             /\ busy' = busy + r
             /\ sources' = {s \in t.sources : s.id # dispatching}
             /\ state_timer_id' = t.state_timer_id
             /\ next_source_id' = t.next_source_id
    /\ dispatching' = 0
    /\ pc' = "loop"
    /\ state_tick' = 0
    /\ UNCHANGED <<bus_pending, cfgVars, loopVars, current_stage, set_state_calls,
                   fpsVars, exit_code, sigint_seen, terminated>>


\* Variant of the rebuild's last step that also zeroes frame_count.
state_machine_cb_create_resets_counter ==
    /\ ~terminated
    /\ pc = "sm_create"
    /\ \E o \in BuildOutcomes(build) :
         LET r == CreatePipeline(build, graphs, pads, o)
         IN  /\ graphs' = r.graphs
             /\ pads' = r.pads
             /\ pipeline' = r.pipe
             /\ tee_req_pad_udp' = r.udp
             /\ tee_req_pad_fps' = r.fps
    /\ phase' = "NULL_STATE"
    /\ \E r \in 0..elapsed(MaxRebuildSeconds) :
         LET t == arm_next_state_timer(sources, state_timer_id, next_source_id,
                                       ShortDwell, clock + r)
         IN  /\ clock' = clock + r
             /\ busy' = busy + r
             /\ sources' = {s \in t.sources : s.id # dispatching}
             /\ state_timer_id' = t.state_timer_id
             /\ next_source_id' = t.next_source_id
    /\ dispatching' = 0
    /\ pc' = "loop"
    /\ frame_count' = 0
    /\ UNCHANGED <<bus_pending, cfgVars, loopVars, current_stage, state_tick,
                   set_state_calls,
                   handoffs, last_frame_count, fps_now, fps_diff, fps_total, exit_code, sigint_seen,
                   terminated>>

\* Rebuild: pipeline = create_pipeline(...); phase = NULL_STATE;
\* arm_next_state_timer(1); return G_SOURCE_REMOVE.
state_machine_cb_create ==
    /\ ~terminated
    /\ pc = "sm_create"
    /\ \E o \in BuildOutcomes(build) :
         LET r == CreatePipeline(build, graphs, pads, o)
         IN  /\ graphs' = r.graphs
             /\ pads' = r.pads
             /\ pipeline' = r.pipe
             /\ tee_req_pad_udp' = r.udp
             /\ tee_req_pad_fps' = r.fps
    /\ phase' = "NULL_STATE"
    /\ \E r \in 0..elapsed(MaxRebuildSeconds) :
         LET t == arm_next_state_timer(sources, state_timer_id, next_source_id,
                                       ShortDwell, clock + r)
         IN  /\ clock' = clock + r
             /\ busy' = busy + r
             /\ sources' = {s \in t.sources : s.id # dispatching}
             /\ state_timer_id' = t.state_timer_id
             /\ next_source_id' = t.next_source_id
    /\ dispatching' = 0
    /\ pc' = "loop"
    /\ UNCHANGED <<bus_pending, cfgVars, loopVars, current_stage, state_tick,
                   set_state_calls,
                   fpsVars, exit_code, sigint_seen, terminated>>

-----------------------------------------------------------------------------
\* Throughput counter and sampler

\* A pipeline whose identity element can see buffers: alive, prerolling or
\* playing (or still on its way there after a wait that timed out), with the
\* tee linked to the FPS queue.
Streaming(g) ==
    /\ graphs[g].alive
    /\ \/ graphs[g].cur \in {"PAUSED", "PLAYING"}
       \/ graphs[g].target \in {"PAUSED", "PLAYING"}
    /\ \E p \in 1..Len(pads) :
         pads[p].owner = g /\ pads[p].branch = "fps" /\ pads[p].linked

\* Variant: a plain load, add, store in which the second update is lost.
increment_not_atomic(n) == IF n = 1 THEN n ELSE n + 1

\* frame_count++ on the atomic: one indivisible read-modify-write.  MaxFrames
\* is far below 2^64: the counter does not wrap within the model's bound.
increment(n) == n + 1

\* Variant that also moves the sampler's snapshot.
on_handoff_updates_snapshot ==
    /\ ~Ended
    /\ handoffs < MaxFrames
    /\ \E g \in 1..Len(graphs) : Streaming(g)
    /\ handoffs' = handoffs + 1
    /\ frame_count' = increment(frame_count)
    /\ last_frame_count' = increment(frame_count)
    /\ UNCHANGED <<clockVars, bus_pending, cfgVars, pc, exit_code, loopVars, timerVars, gstVars,
                   ctlVars,
                   fps_now, fps_diff, fps_total, sigint_seen, terminated>>

\* on_handoff, on the engine's streaming thread: the identity element emits
\* one handoff per buffer and the callback runs once for it.
on_handoff ==
    /\ ~Ended
    /\ handoffs < MaxFrames
    /\ \E g \in 1..Len(graphs) : Streaming(g)
    /\ handoffs' = handoffs + 1
    /\ frame_count' = increment(frame_count)
    /\ UNCHANGED <<clockVars, bus_pending, cfgVars, pc, exit_code, loopVars, timerVars, gstVars,
                   ctlVars,
                   last_frame_count, fps_now, fps_diff, fps_total, sigint_seen, terminated>>

\* Variant whose load takes the count away (an exchange with 0).
fps_log_cb_load_drains ==
    /\ ~terminated
    /\ pc = "loop"
    /\ is_running
    /\ \E s \in sources : s.cb = "fps" /\ Ready(s)
    /\ fps_now' = frame_count
    /\ frame_count' = 0
    /\ pc' = "fps_store"
    /\ UNCHANGED <<clockVars, bus_pending, cfgVars, exit_code, loopVars, timerVars,
                   gstVars, ctlVars,
                   handoffs, last_frame_count, fps_diff, fps_total, sigint_seen,
                   terminated>>

\* fps_log_cb, first half: uint64_t now = frame_count.load();
fps_log_cb_load ==
    /\ ~terminated
    /\ pc = "loop"
    /\ is_running
    /\ \E s \in sources : s.cb = "fps" /\ Ready(s)
    /\ fps_now' = frame_count
    /\ pc' = "fps_store"
    /\ UNCHANGED <<clockVars, bus_pending, cfgVars, exit_code, loopVars, timerVars,
                   gstVars, ctlVars,
                   handoffs, frame_count, last_frame_count, fps_diff, fps_total, sigint_seen,
                   terminated>>

\* Variant that reports the frames of the period, not the frames per second.
fps_tenths_per_period(diff) == diff * 10

\* double fps = diff / 5.0, in tenths of a frame per second (diff / 5.0 has
\* one decimal digit, so nothing is rounded away).
fps_tenths(diff) == (diff * 10) \div FpsDivisor

\* Variant that reads frame_count a second time for last_frame_count.
fps_log_cb_store_reloads ==
    /\ ~terminated
    /\ pc = "fps_store"
    /\ fps_diff' = fps_now - last_frame_count
    /\ fps_total' = fps_total + (fps_now - last_frame_count)
    /\ last_frame_count' = frame_count
    /\ pc' = "loop"
    /\ sources' = {IF s.cb = "fps" THEN g_timeout_add_seconds(s.id, s.cb, s.secs, clock)
                   ELSE s : s \in sources}
    /\ UNCHANGED <<clockVars, bus_pending, cfgVars, exit_code, loopVars, next_source_id,
                   state_timer_id, dispatching, gstVars, ctlVars,
                   handoffs, frame_count, fps_now, sigint_seen, terminated>>

\* fps_log_cb, second half: diff, last_frame_count = now, the "[FPS]" line
\* (tagged current_stage); return TRUE keeps the source, which is due again
\* one period later.
fps_log_cb_store ==
    /\ ~terminated
    /\ pc = "fps_store"
    /\ fps_diff' = fps_now - last_frame_count
    /\ fps_total' = fps_total + (fps_now - last_frame_count)
    /\ last_frame_count' = fps_now
    /\ pc' = "loop"
    /\ sources' = {IF s.cb = "fps" THEN g_timeout_add_seconds(s.id, s.cb, s.secs, clock)
                   ELSE s : s \in sources}
    /\ UNCHANGED <<clockVars, bus_pending, cfgVars, exit_code, loopVars, next_source_id,
                   state_timer_id, dispatching, gstVars, ctlVars,
                   handoffs, frame_count, fps_now, sigint_seen, terminated>>

-----------------------------------------------------------------------------
\* Bus

\* What bus_cb's switch tells apart.
MessageTypes == {"ERROR", "WARNING", "STATE_CHANGED", "OTHER"}

\* An element of the current pipeline posts a message while the pipeline is
\* asked to be out of NULL and bus_cb watches its bus.
post_message ==
    /\ ~Ended
    /\ pipeline # 0
    /\ graphs[pipeline].alive
    /\ graphs[pipeline].watches > 0
    /\ graphs[pipeline].target # "NULL"
    /\ ~bus_pending
    /\ bus_pending' = TRUE
    /\ UNCHANGED <<clockVars, cfgVars, pc, exit_code, loopVars, timerVars, gstVars, ctlVars,
                   fpsVars, sigint_seen, terminated>>

\* Variant in which an error message stops the loop.
bus_cb_quits_on_error ==
    /\ ~terminated
    /\ pc = "loop"
    /\ is_running
    /\ bus_pending
    /\ bus_pending' = FALSE
    /\ \E type \in MessageTypes :
         is_running' = (type # "ERROR")
    /\ UNCHANGED <<clockVars, cfgVars, pc, exit_code, loop, timerVars, gstVars, ctlVars,
                   fpsVars, sigint_seen, terminated>>

\* bus_cb, dispatched by the loop for the pending message: every case of the
\* switch only prints, and return TRUE keeps the watch.
bus_cb ==
    /\ ~terminated
    /\ pc = "loop"
    /\ is_running
    /\ bus_pending
    /\ bus_pending' = FALSE
    /\ \E type \in MessageTypes :
         UNCHANGED <<clockVars, cfgVars, pc, exit_code, loopVars, timerVars, gstVars, ctlVars,
                     fpsVars, sigint_seen, terminated>>

-----------------------------------------------------------------------------
\* Time

\* A second passes while g_main_loop_run is idle: no source is due (the loop
\* dispatches a due source before it sleeps again).
advance_time ==
    /\ timed
    /\ ~terminated
    /\ pc = "loop"
    /\ is_running
    /\ clock < MaxClock
    /\ \A s \in sources : s.due > clock
    /\ clock' = clock + 1
    /\ UNCHANGED <<busy, bus_pending, cfgVars, pc, exit_code, loopVars, timerVars, gstVars,
                   ctlVars, fpsVars, sigint_seen, terminated>>

-----------------------------------------------------------------------------
\* Signals

\* handle_sigint: if (loop) g_main_loop_quit(loop);  Runs on a SIGINT once
\* main_check has installed it.
handle_sigint ==
    /\ ~Ended
    /\ sigint_handler
    /\ sigint_seen' = TRUE
    /\ is_running' = IF loop THEN FALSE ELSE is_running
    /\ UNCHANGED <<clockVars, bus_pending, cfgVars, pc, exit_code, loop, timerVars, gstVars,
                   ctlVars, fpsVars,
                   terminated>>

\* Variant in which the process releases its recorded pads as it dies.
sigterm_releases_pads ==
    /\ ~Ended
    /\ terminated' = TRUE
    /\ pads' = release_tee_req_pad(release_tee_req_pad(pads, tee_req_pad_udp),
                                   tee_req_pad_fps)
    /\ tee_req_pad_udp' = 0
    /\ tee_req_pad_fps' = 0
    /\ UNCHANGED <<clockVars, bus_pending, cfgVars, pc, exit_code, loopVars, timerVars,
                   pipeline, graphs, ctlVars, fpsVars, sigint_seen>>

\* SIGTERM has no handler, and SIGINT has none before std::signal: the
\* default action ends the process at once.
sigterm ==
    /\ ~Ended
    /\ terminated' = TRUE
    /\ UNCHANGED <<clockVars, bus_pending, cfgVars, pc, exit_code, loopVars, timerVars, gstVars,
                   ctlVars,
                   fpsVars, sigint_seen>>

-----------------------------------------------------------------------------
\* main, after g_main_loop_run returned

\* Variant in which the exit sequence starts as soon as the loop is told to
\* quit, also in the middle of a rebuild.
main_exit_preempts_rebuild ==
    /\ ~terminated
    /\ pc \in {"loop", "sm_release", "sm_unref", "sm_create"}
    /\ ~is_running
    /\ graphs' = gst_element_set_state(graphs, pipeline, "NULL", "reached")
    /\ set_state_calls' = set_state_calls + 1
    /\ bus_pending' = flushed(bus_pending, "NULL")
    /\ pc' = IF build = "sdk191" THEN "exit_unref" ELSE "exit_release"
    /\ UNCHANGED <<clockVars, cfgVars, exit_code, loopVars, timerVars, pipeline, pads,
                   tee_req_pad_udp, tee_req_pad_fps, phase, current_stage, state_tick,
                   fpsVars, sigint_seen, terminated>>

\* Variant of the first exit step without the gst_element_set_state call.
main_exit_skips_set_null ==
    /\ ~terminated
    /\ pc = "loop"
    /\ ~is_running
    /\ pc' = IF build = "sdk191" THEN "exit_unref" ELSE "exit_release"
    /\ set_state_calls' = set_state_calls + 1
    /\ UNCHANGED <<clockVars, bus_pending, cfgVars, exit_code, loopVars, timerVars,
                   gstVars, phase,
                   current_stage, state_tick, fpsVars, sigint_seen, terminated>>

\* The loop saw is_running false between two dispatches and returned;
\* gst_element_set_state(pipeline, GST_STATE_NULL).
main_exit_set_null ==
    /\ ~terminated
    /\ pc = "loop"
    /\ ~is_running
    /\ graphs' = gst_element_set_state(graphs, pipeline, "NULL", "reached")
    /\ set_state_calls' = set_state_calls + 1
    /\ bus_pending' = flushed(bus_pending, "NULL")
    /\ pc' = IF build = "sdk191" THEN "exit_unref" ELSE "exit_release"
    /\ UNCHANGED <<clockVars, cfgVars, exit_code, loopVars, timerVars, pipeline, pads,
                   tee_req_pad_udp, tee_req_pad_fps, phase, current_stage, state_tick,
                   fpsVars, sigint_seen, terminated>>

\* Both recorded tee pads are released and cleared.
main_exit_release ==
    /\ ~terminated
    /\ pc = "exit_release"
    /\ pads' = release_tee_req_pad(release_tee_req_pad(pads, tee_req_pad_udp), tee_req_pad_fps)
    /\ tee_req_pad_udp' = 0
    /\ tee_req_pad_fps' = 0
    /\ pc' = "exit_unref"
    /\ UNCHANGED <<clockVars, bus_pending, cfgVars, exit_code, loopVars, timerVars, pipeline,
                   graphs, ctlVars,
                   fpsVars, sigint_seen, terminated>>

\* gst_object_unref(pipeline); g_main_loop_unref(loop); return 0;
main_exit_unref ==
    /\ ~terminated
    /\ pc = "exit_unref"
    /\ graphs' = gst_object_unref_pipeline(graphs, pipeline)
    /\ pc' = "done"
    /\ exit_code' = 0
    /\ UNCHANGED <<clockVars, bus_pending, cfgVars, loopVars, timerVars, pipeline, pads,
                   tee_req_pad_udp,
                   tee_req_pad_fps, ctlVars, fpsVars, sigint_seen, terminated>>

-----------------------------------------------------------------------------
Next ==
    \/ main_check
    \/ main_create
    \/ main_loop_new
    \/ main_run
    \/ state_machine_cb
    \/ state_machine_cb_release
    \/ state_machine_cb_unref
    \/ state_machine_cb_create
    \/ fps_log_cb_load
    \/ fps_log_cb_store
    \/ on_handoff
    \/ post_message
    \/ bus_cb
    \/ handle_sigint
    \/ sigterm
    \/ main_exit_set_null
    \/ main_exit_release
    \/ main_exit_unref

Spec == Init /\ [][Next]_vars

\* The steps of the control thread: main and the callbacks the GMainLoop
\* dispatches on it.
ControlThread ==
    \/ main_check
    \/ main_create
    \/ main_loop_new
    \/ main_run
    \/ state_machine_cb
    \/ state_machine_cb_release
    \/ state_machine_cb_unref
    \/ state_machine_cb_create
    \/ fps_log_cb_load
    \/ fps_log_cb_store
    \/ bus_cb
    \/ main_exit_set_null
    \/ main_exit_release
    \/ main_exit_unref

\* The control thread is scheduled: while it has a step to take it takes
\* one.  Nothing is assumed of signals or of the streaming thread.
FairSpec == Spec /\ WF_vars(ControlThread)

TimedNext == Next \/ advance_time

\* The sampler on its own: the loop is running in the first Playing phase
\* (pipeline built with both branches linked, state change reached, the 10 s
\* timer armed), the preceding sample stored previous, and burst handoffs
\* have been counted since.
SamplerInit ==
    LET r == create_pipeline(<<>>, <<>>, [kind |-> "built", udp |-> "ok", fps |-> "ok"])
        st == set_pipeline_state(r.graphs, r.pipe, "PLAYING", "PLAYING", "reached")
        t == arm_next_state_timer({g_timeout_add_seconds(1, "fps", FpsPeriod, 0)},
                                  2, 3, dwell_of("PLAYING"), 0)
    IN  /\ build = "v110"
        /\ phase_mode = 3
        /\ argv = <<>>
        /\ sigint_handler = TRUE
        /\ timed = FALSE
        /\ clock = 0
        /\ busy = 0
        /\ pc = "loop"
        /\ exit_code = 0
        /\ loop = TRUE
        /\ is_running = TRUE
        /\ sources = t.sources
        /\ next_source_id = t.next_source_id
        /\ state_timer_id = t.state_timer_id
        /\ dispatching = 0
        /\ pipeline = r.pipe
        /\ graphs = st.graphs
        /\ pads = r.pads
        /\ tee_req_pad_udp = r.udp
        /\ tee_req_pad_fps = r.fps
        /\ phase = "PLAYING"
        /\ current_stage = st.current_stage
        /\ state_tick = 1
        /\ set_state_calls = st.calls
        /\ bus_pending = FALSE
        /\ sigint_seen = FALSE
        /\ terminated = FALSE
        /\ \E previous \in 0..MaxPrevious, burst \in 0..MaxBurst :
              /\ last_frame_count = previous
              /\ fps_now = previous
              /\ fps_diff = previous
              /\ fps_total = previous
              /\ frame_count = previous + burst
              /\ handoffs = previous + burst

SamplerNext == fps_log_cb_load \/ fps_log_cb_store

SamplerSpec == SamplerInit /\ [][SamplerNext]_vars

TimedSpec == TimedInit /\ [][TimedNext]_vars

TypeOK ==
    /\ build \in Builds
    /\ phase_mode \in Int
    /\ argv \in CommandLines
    /\ sigint_handler \in BOOLEAN
    /\ timed \in BOOLEAN
    /\ fps_total \in 0..MaxFrames
    /\ clock \in 0..(MaxClock + StateWait)
    /\ busy \in 0..clock
    /\ \A s \in sources : s.due = (IF timed THEN s.due ELSE s.secs)
    /\ pc \in {"main", "create", "loop_new", "run", "loop", "sm_release", "sm_unref",
               "sm_create", "fps_store", "exit_release", "exit_unref", "done"}
    /\ exit_code \in {0, -1}
    /\ loop \in BOOLEAN /\ is_running \in BOOLEAN /\ sigint_seen \in BOOLEAN
    /\ terminated \in BOOLEAN
    /\ bus_pending \in BOOLEAN
    /\ pipeline \in 0..Len(graphs)
    /\ tee_req_pad_udp \in 0..Len(pads)
    /\ tee_req_pad_fps \in 0..Len(pads)
    /\ phase \in Phase
    /\ current_stage \in GstState
    /\ state_tick \in 0..MaxTicks
    /\ set_state_calls \in 0..(MaxTicks + 1)
    /\ handoffs \in 0..MaxFrames
    /\ frame_count \in 0..MaxFrames
    /\ last_frame_count \in 0..MaxFrames
    /\ \A g \in 1..Len(graphs) : graphs[g].cur \in GstState /\ graphs[g].target \in GstState

-----------------------------------------------------------------------------
\* Vocabulary of the properties

GraphIds == 1..Len(graphs)
PadIds == 1..Len(pads)

Alive == {g \in GraphIds : graphs[g].alive}
Destroyed == GraphIds \ Alive

PadsOf(g) == {p \in PadIds : pads[p].owner = g}

\* A pad the orchestrator still holds its reference to.
Outstanding == {p \in PadIds : pads[p].unrefs = 0}

\* Number of connector requests made on the pipelines in G.
Requests(G) == Cardinality({p \in PadIds : pads[p].owner \in G})

RECURSIVE UnrefsUpTo(_, _)
UnrefsUpTo(n, G) ==
    IF n = 0 THEN 0
    ELSE UnrefsUpTo(n - 1, G) + (IF pads[n].owner \in G THEN pads[n].unrefs ELSE 0)

\* Number of connector releases made on pads of the pipelines in G.
Releases(G) == UnrefsUpTo(Len(pads), G)

\* The tee of pipeline g is linked to the queue of this branch.
BranchLinked(g, branch) ==
    \E p \in PadsOf(g) : pads[p].branch = branch /\ pads[p].linked

\* The control thread is inside the rebuild part of a firing.
InRebuild == pc \in {"sm_release", "sm_unref", "sm_create"}

\* The control thread is just before or just after a pipeline unref.
AtDestroy == pc \in {"sm_unref", "sm_create", "exit_unref", "done"}

StateTimers == {s \in sources : s.cb = "state"}

-----------------------------------------------------------------------------
\* C1 - No leaked connectors: every connector requested on a pipeline that
\* has been destroyed has been released (requests on destroyed pipelines
\* equal the releases of their connectors, a pad whose link failed
\* included), and at each pipeline destruction, in a rebuild or at exit, the
\* requests made so far equal the releases made so far.
C1_NoLeakedConnectors ==
    /\ Requests(Destroyed) = Releases(Destroyed)
    /\ \A g \in Destroyed : PadsOf(g) \cap Outstanding = {}
    /\ AtDestroy => Requests(GraphIds) = Releases(GraphIds)

\* The second rebuild of a v110 run is destroying a pipeline that had one
\* branch linked and one branch whose link failed after the pad request.
C1_Witness ==
    /\ build = "v110"
    /\ pc = "sm_create"
    /\ state_tick >= 6
    /\ \E p, q \in PadsOf(pipeline) : pads[p].linked /\ ~pads[q].linked

\* C2 - No double release: no connector is released more than once over
\* firings, rebuilds and the graceful exit; a recorded handle is always one
\* that has not been released yet, and it is cleared by the release.
C2_NoDoubleRelease ==
    /\ \A p \in PadIds : pads[p].unrefs <= 1
    /\ tee_req_pad_udp # 0 => pads[tee_req_pad_udp].unrefs = 0
    /\ tee_req_pad_fps # 0 => pads[tee_req_pad_fps].unrefs = 0
    /\ AtDestroy => tee_req_pad_udp = 0 /\ tee_req_pad_fps = 0

\* A graceful exit after a rebuild: pads of two different pipelines were
\* released, the earlier by the rebuild path and the later by the exit path.
C2_Witness ==
    /\ build = "v110"
    /\ pc = "done"
    /\ exit_code = 0
    /\ pipeline # 0
    /\ \E p \in PadsOf(pipeline) : pads[p].linked /\ pads[p].unrefs = 1
    /\ \E g \in Destroyed \ {pipeline} :
         \E p \in PadsOf(g) : pads[p].linked /\ pads[p].unrefs = 1

\* C3 - Rebuild ordering: a pipeline is destroyed only after every connector
\* requested on it has been released, and the construction of a pipeline
\* begins only when no pipeline is left alive.
C3_RebuildOrdering ==
    [][/\ \A g \in GraphIds :
            (graphs[g].alive /\ ~graphs'[g].alive) =>
                \A p \in PadsOf(g) : pads[p].unrefs >= 1
       /\ Len(graphs') > Len(graphs) => Alive = {}]_vars

\* A rebuild has released the two linked pads of the old pipeline and
\* destroyed it; the new one is not built yet.
C3_Witness ==
    /\ build = "v110"
    /\ pc = "sm_create"
    /\ pipeline # 0
    /\ ~graphs[pipeline].alive
    /\ BranchLinked(pipeline, "udp")
    /\ BranchLinked(pipeline, "fps")

\* C4 - Single live instance: at most one pipeline is alive in any state,
\* and all outstanding connectors belong to that pipeline.
C4_SingleLiveInstance ==
    /\ Cardinality(Alive) <= 1
    /\ \A p \in Outstanding : pads[p].owner \in Alive

\* After a rebuild: the old pipeline was unreferenced, the new one is alive
\* and owns an outstanding connector.
C4_Witness ==
    /\ pc = "loop"
    /\ pipeline # 0
    /\ graphs[pipeline].alive
    /\ PadsOf(pipeline) \cap Outstanding # {}
    /\ \E g \in Destroyed : graphs[g].unrefs = 1 /\ PadsOf(g) # {}

\* The phase the state machine is in after n completed firings.
Visit3(n) == <<"NULL_STATE", "PLAYING", "PAUSED">>[(n % 3) + 1]
Visit4(n) == <<"NULL_STATE", "PLAYING", "PAUSED", "READY">>[(n % 4) + 1]

\* Firings completed: the one in progress has counted itself already.
CompletedFirings == IF InRebuild THEN state_tick - 1 ELSE state_tick

\* C5 - Phase cycle, 3-phase mode: with phase_mode = 3 the phase after n
\* firings is the n-th element of Null, Playing, Paused, Null, ...; Ready is
\* never the current phase.
C5_PhaseCycle3 ==
    phase_mode = 3 =>
        /\ phase = Visit3(CompletedFirings)
        /\ phase # "READY"

\* Second time round the 3-phase cycle.
C5_Witness ==
    /\ phase_mode = 3
    /\ state_tick = 5
    /\ phase = "PAUSED"
    /\ pc = "loop"

\* C6 - Phase cycle, 4-phase mode: with phase_mode = 4 the phase after n
\* firings is the n-th element of Null, Playing, Paused, Ready, Null, ...
C6_PhaseCycle4 ==
    phase_mode = 4 => phase = Visit4(CompletedFirings)

\* Second time round the 4-phase cycle, in the build that has the option.
C6_Witness ==
    /\ build = "v110"
    /\ phase_mode = 4
    /\ state_tick = 6
    /\ phase = "PAUSED"
    /\ pc = "loop"

\* C7 - Construction failure during a rebuild is fatal: once a rebuild's
\* create_pipeline has returned no pipeline, no state timer is armed and the
\* process has exited with a non-zero status.
C7_RebuildFailureIsFatal ==
    (state_tick > 0 /\ pipeline = 0) =>
        /\ StateTimers = {}
        /\ pc = "done"
        /\ exit_code # 0

\* C8 - Construction is atomic on required-branch failure: a pipeline whose
\* measurement branch did not link is never returned; it has been destroyed
\* and none of its connectors is outstanding.
C8_AtomicConstruction ==
    \A g \in GraphIds :
        ~BranchLinked(g, "fps") =>
            /\ ~graphs[g].alive
            /\ pipeline # g
            /\ PadsOf(g) \cap Outstanding = {}

\* A construction step that linked the measurement branch and not the
\* egress branch.
DegradedConstruction ==
    /\ Len(graphs') = Len(graphs) + 1
    /\ \E p \in (Len(pads) + 1)..Len(pads') :
         pads'[p].branch = "fps" /\ pads'[p].linked
    /\ ~\E p \in (Len(pads) + 1)..Len(pads') :
         pads'[p].branch = "udp" /\ pads'[p].linked

\* C9 - Degraded-branch continuity: when the egress branch fails to link and
\* the measurement branch links, create_pipeline returns a live pipeline, no
\* handle is recorded for the egress branch (the measurement handle is, in
\* the build that records handles), main goes on to the loop and a rebuild
\* re-arms the state timer.
C9_DegradedBranchContinuity ==
    [][DegradedConstruction =>
          /\ pipeline' = Len(graphs')
          /\ graphs'[pipeline'].alive
          /\ tee_req_pad_udp' = 0
          /\ build = "v110" =>
                /\ tee_req_pad_fps' # 0
                /\ pads'[tee_req_pad_fps'].owner = pipeline'
                /\ pads'[tee_req_pad_fps'].branch = "fps"
          /\ pc' \in {"loop_new", "loop"}
          /\ pc' = "loop" => Cardinality({s \in sources' : s.cb = "state"}) = 1]_vars

\* A rebuilt pipeline without egress branch is playing: the state machine
\* went on cycling after the degraded rebuild.
C9_Witness ==
    /\ build = "v110"
    /\ state_tick >= 4
    /\ phase = "PLAYING"
    /\ pipeline # 0
    /\ graphs[pipeline].alive
    /\ graphs[pipeline].cur = "PLAYING"
    /\ BranchLinked(pipeline, "fps")
    /\ ~BranchLinked(pipeline, "udp")
    /\ tee_req_pad_udp = 0

\* C10 - Monotonic counter: frame_count never decreases; it changes only by
\* one increment at a time, and never in a step that destroys or builds a
\* pipeline or requests or releases a pad.
C10_MonotonicCounter ==
    [][/\ frame_count' >= frame_count
       /\ frame_count' # frame_count =>
            /\ frame_count' = frame_count + 1
            /\ UNCHANGED <<pipeline, graphs, pads>>]_vars

\* Frames were counted before a rebuild and the count is still there while
\* the rebuilt pipeline plays.
C10_Witness ==
    /\ frame_count = MaxFrames
    /\ state_tick >= 4
    /\ Destroyed # {}
    /\ pipeline # 0
    /\ graphs[pipeline].alive
    /\ graphs[pipeline].cur = "PLAYING"

\* C11 - No lost updates: in every interleaving of on_handoff calls with the
\* sampler's load and store and with timer firings, frame_count equals the
\* number of on_handoff calls made so far; no control-thread step changes it.
C11_NoLostUpdates ==
    frame_count = handoffs

\* Both increments happened while a sample was between its load and its
\* store, after a firing had set the pipeline playing.
C11_Witness ==
    /\ pc = "fps_store"
    /\ fps_now = 0
    /\ handoffs = MaxFrames
    /\ frame_count = MaxFrames
    /\ state_tick >= 1

\* C12 - Sampler arithmetic: a sample loads frame_count once; its diff is
\* the loaded value minus last_frame_count, the reported rate is that diff
\* over 5, and last_frame_count becomes exactly the loaded value, whatever
\* frame_count has become meanwhile.  last_frame_count is 0 before the first
\* sample and changes in no other step, so it is what the preceding sample
\* stored.
C12_SamplerArithmetic ==
    [][/\ (pc = "loop" /\ pc' = "fps_store") =>
            /\ fps_now' = frame_count
            /\ UNCHANGED <<frame_count, last_frame_count, fps_diff>>
       /\ pc = "fps_store" => (pc' = "fps_store" => fps_now' = fps_now)
       /\ (pc = "fps_store" /\ pc' = "loop") =>
            /\ fps_diff' = fps_now - last_frame_count
            /\ fps_tenths(fps_diff') * 5 = (fps_now - last_frame_count) * 10
            /\ last_frame_count' = fps_now
            /\ UNCHANGED frame_count
       /\ last_frame_count' # last_frame_count => pc = "fps_store"
       /\ (state_tick = 0 /\ pc \in {"main", "create", "loop_new", "run"}) =>
            last_frame_count = 0]_vars

\* A later sample: the preceding one had stored 1, this one loaded 2 and
\* reported the difference.
C12_Witness ==
    /\ pc = "loop"
    /\ last_frame_count = 2
    /\ fps_diff = 1
    /\ fps_now = 2

\* A step in which a firing of the state timer returns to the loop.
FiringReturns ==
    /\ pc' = "loop"
    /\ \/ pc = "loop" /\ state_tick' = state_tick + 1
       \/ pc = "sm_create"

TimedOut(gs, g) == g # 0 /\ gs[g].alive /\ gs[g].cur # gs[g].target

\* C14 - A transition timeout is not retried: a firing whose
\* set_pipeline_state wait ends short of the requested state has made one
\* gst_element_set_state call, moves phase to the scheduled next phase, arms
\* one new timer and returns; no step makes two calls, and the next call on
\* that pipeline asks for a different state.
C14_TimeoutNotRetried ==
    [][/\ (state_tick' = state_tick + 1 /\ TimedOut(graphs', pipeline)) =>
            /\ set_state_calls' = set_state_calls + 1
            /\ phase = "NULL_STATE" => phase' = "PLAYING"
            /\ phase = "PLAYING" => phase' = "PAUSED"
            /\ phase = "PAUSED" => phase' = "READY"
            /\ graphs'[pipeline].target = stage_of(phase')
            /\ pc' = "loop"
            /\ Cardinality({s \in sources' : s.cb = "state"}) = 1
            /\ \A s \in sources' : s.cb = "state" =>
                  s.id \notin {t.id : t \in sources}
       /\ set_state_calls' <= set_state_calls + 1
       /\ (set_state_calls' # set_state_calls /\ TimedOut(graphs, pipeline)) =>
            graphs'[pipeline].target # graphs[pipeline].target]_vars

\* The waits for Playing and for Paused both timed out; the state machine
\* is in Paused after two calls, with the pipeline still in NULL.
C14_Witness ==
    /\ pc = "loop"
    /\ state_tick = 2
    /\ set_state_calls = 2
    /\ phase = "PAUSED"
    /\ pipeline # 0
    /\ graphs[pipeline].cur = "NULL"
    /\ graphs[pipeline].target = "PAUSED"
    /\ StateTimers # {}

\* The pipeline variable is null or names a live pipeline stopped in NULL.
PipelineStopped ==
    pipeline # 0 =>
        /\ graphs[pipeline].alive
        /\ graphs[pipeline].cur = "NULL"
        /\ graphs[pipeline].target = "NULL"

\* C15 - Graceful exit sequence: after the loop has exited on an interrupt,
\* main first sets the pipeline to NULL, then releases the recorded pads,
\* then unreferences the pipeline, then returns 0.  At the release the
\* pipeline is already stopped; at the unref it is still alive and no pad is
\* outstanding; after the return no pad is outstanding and no pipeline is
\* alive.  This does not depend on the phase the loop exited in.
C15_GracefulExitSequence ==
    /\ pc \in {"exit_release", "exit_unref"} => sigint_seen /\ ~is_running
    /\ pc = "exit_release" => PipelineStopped
    /\ pc = "exit_unref" =>
          /\ PipelineStopped
          /\ Outstanding = {}
          /\ tee_req_pad_udp = 0 /\ tee_req_pad_fps = 0
    /\ (pc = "done" /\ loop) =>
          /\ exit_code = 0
          /\ sigint_seen
          /\ Alive = {}
          /\ Outstanding = {}
          /\ pipeline # 0 => graphs[pipeline].cur = "NULL"

\* The loop exited while the state machine was in Paused on a playing-capable
\* pipeline with both branches linked; main has returned 0.
C15_Witness ==
    /\ build = "v110"
    /\ pc = "done"
    /\ exit_code = 0
    /\ phase = "PAUSED"
    /\ pipeline # 0
    /\ ~graphs[pipeline].alive
    /\ graphs[pipeline].target = "NULL"
    /\ \A p \in PadsOf(pipeline) : pads[p].linked /\ pads[p].unrefs = 1
    /\ Cardinality(PadsOf(pipeline)) = 2

\* C16 - The stop request is never lost: once handle_sigint has run, the
\* event loop exits and main returns (or the process is ended by another
\* signal), given that the control thread keeps being scheduled.
C16_StopRequestNeverLost ==
    sigint_seen ~> (pc = "done" \/ terminated)

\* The control thread is in main's exit sequence.
InTeardown == pc \in {"exit_release", "exit_unref"}

\* C17 - A rebuild is not interruptible: a firing that is in its rebuild
\* goes on to the rebuild's next step or returns to the loop, whether or not
\* handle_sigint has run meanwhile; the exit sequence starts only from the
\* loop with no firing in progress, and what it finds is a pipeline variable
\* that is null or names a live pipeline, with exactly the recorded pads
\* outstanding.
C17_RebuildNotInterruptible ==
    [][/\ InRebuild =>
            pc' \in {"sm_release", "sm_unref", "sm_create", "loop"}
       /\ (~InTeardown /\ InTeardown') =>
            /\ pc = "loop"
            /\ dispatching = 0
            /\ pipeline # 0 => graphs[pipeline].alive
            /\ Outstanding = {tee_req_pad_udp, tee_req_pad_fps} \ {0}
            /\ \A p \in Outstanding : pads[p].owner = pipeline]_vars

\* handle_sigint has stopped the loop while the firing is between the
\* unref of the old pipeline and the construction of the new one: the
\* pipeline variable dangles, the pads are released, the firing is still
\* in progress.
C17_Witness ==
    /\ pc = "sm_create"
    /\ sigint_seen
    /\ ~is_running
    /\ dispatching # 0
    /\ pipeline # 0
    /\ ~graphs[pipeline].alive
    /\ \E p \in PadsOf(pipeline) : pads[p].linked /\ pads[p].unrefs = 1

\* C18 - Invalid configuration is fatal before any resource is acquired:
\* when the command line is --phase followed by a text other than 3 or 4,
\* the process ends with a non-zero status (or is ended by a signal) and no
\* pipeline has been built, no pad requested, no timer added and no signal
\* handler installed.
C18_InvalidConfigurationIsFatal ==
    [][(/\ pc = "main"
        /\ build = "v110"
        /\ Len(argv) = 2
        /\ argv[1] = OptPhase
        /\ argv[2] \notin {<<"3">>, <<"4">>}) =>
            /\ (pc' = "done" /\ exit_code' # 0) \/ terminated'
            /\ ~sigint_handler'
            /\ graphs' = <<>>
            /\ pads' = <<>>
            /\ sources' = {}]_vars

\* C19 - Dispatcher registered: every pipeline create_pipeline has
\* returned, at start and after every rebuild, has bus_cb added to its bus
\* exactly once, so no live pipeline is without a bus watch.
C19_DispatcherRegisteredOnce ==
    \A g \in Alive : graphs[g].watches = 1

\* A step in which the loop dispatches the pending bus message to bus_cb
\* (a flush of the bus happens in a step that leaves the loop position).
BusDispatch == bus_pending /\ ~bus_pending' /\ pc' = pc

\* C20 - Engine faults are non-fatal: dispatching an error or warning (or
\* any other) message to bus_cb leaves the phase, state_tick, the armed
\* timer, the pipeline variable and the recorded pads unchanged, keeps
\* bus_cb on the pipeline's bus and leaves the loop running.
C20_EngineFaultsNonFatal ==
    [][BusDispatch =>
          /\ UNCHANGED <<phase, current_stage, state_tick>>
          /\ UNCHANGED <<sources, state_timer_id, next_source_id>>
          /\ UNCHANGED <<pipeline, graphs, pads, tee_req_pad_udp, tee_req_pad_fps>>
          /\ graphs'[pipeline].watches = 1
          /\ is_running /\ is_running'
          /\ loop'
          /\ ~terminated'
          /\ UNCHANGED exit_code]_vars

\* A message waits for bus_cb while the rebuilt pipeline is in Paused with
\* the state timer armed and both pads recorded: the loop is about to
\* dispatch it.
C20_Witness ==
    /\ bus_pending
    /\ pc = "loop"
    /\ is_running
    /\ ~terminated
    /\ phase = "PAUSED"
    /\ state_tick >= 5
    /\ StateTimers # {}
    /\ tee_req_pad_udp # 0
    /\ tee_req_pad_fps # 0
    /\ graphs[pipeline].watches = 1

-----------------------------------------------------------------------------
\* Timing (runs against the clock, TimedSpec)

\* Seconds the firings up to the scenario's instant (22 s) may block in total for
\* the second Playing phase to have begun by then: it begins at 1 + 10 + 1 +
\* 1 seconds plus the time the first four firings blocked.
ScenarioSlack == 22 - (ShortDwell + PlayingDwell + ShortDwell + ShortDwell)

\* This step carries a 3-phase run past the scenario's instant: the clock
\* was at most there and is beyond it afterwards, so the unprimed globals are
\* what an observer reads at that instant (a firing that blocks across it has
\* counted its tick and not yet assigned phase).
ScenarioInstant ==
    /\ timed
    /\ phase_mode = 3
    /\ clock <= 22
    /\ clock' > 22

-----------------------------------------------------------------------------
\* Rate scenario (the sampler on its own, SamplerSpec)

\* C22 - Rate scenario: when the value a sample loaded is 150 above the one
\* the preceding sample stored (150 increments between the two), the sample
\* computes diff = 150 and reports 30.0 per second (300 tenths), and stores
\* the loaded value.
C22_RateScenario ==
    [][(pc = "fps_store" /\ pc' = "loop" /\ fps_now = last_frame_count + 150) =>
          /\ fps_diff' = 150
          /\ fps_tenths(fps_diff') = 300
          /\ last_frame_count' = fps_now]_vars

\* The second of two consecutive samples has reported: the preceding one had
\* stored a value above 0 and 150 handoffs were counted between them.
C22_Witness ==
    /\ pc = "loop"
    /\ fps_diff = 150
    /\ fps_tenths(fps_diff) = 300
    /\ last_frame_count = frame_count
    /\ handoffs = last_frame_count
    /\ last_frame_count > 150

-----------------------------------------------------------------------------
\* main returned -1 before g_main_loop_new: no loop exists, no source was
\* ever added and the process holds no tee pad.
FailedStart ==
    /\ pc = "done"
    /\ exit_code = -1
    /\ ~loop
    /\ ~is_running
    /\ sources = {}
    /\ next_source_id = 1
    /\ state_timer_id = 0
    /\ state_tick = 0
    /\ Outstanding = {}
    /\ tee_req_pad_udp = 0
    /\ tee_req_pad_fps = 0

\* C23 - Initial build failure is fatal: when main's create_pipeline call
\* returns no pipeline, main returns a non-zero status at once, with no loop
\* created, no timer armed and no tee pad held; nothing happens afterwards
\* that would change that.
C23_InitialBuildFailureFatal ==
    [][/\ (pc = "create" /\ pc' # "create" /\ pipeline' = 0) => FailedStart'
       /\ (pc = "create" /\ pc' # "create" /\ pipeline' # 0) => pc' = "loop_new"
       /\ FailedStart => FailedStart']_vars

\* main has returned -1 after create_pipeline parsed a pipeline, missed an
\* element in it, dropped it and returned nullptr.
C23_Witness ==
    /\ FailedStart
    /\ sigint_handler
    /\ pipeline = 0
    /\ Len(graphs) = 1
    /\ Alive = {}

-----------------------------------------------------------------------------
\* C24 - A termination signal ends the process immediately: the step in
\* which the process is killed changes nothing else (no phase, tick, timer,
\* pipeline, pad or exit status), and no step follows it, so no phase
\* transition, pad release or teardown step runs after SIGTERM; the step in
\* which handle_sigint runs leaves the process alive and only records the
\* stop request (and tells an existing loop to quit).
C24_TerminationIsImmediate ==
    [][/\ (~terminated /\ terminated') =>
            UNCHANGED <<pc, exit_code, loopVars, timerVars, gstVars, ctlVars, fpsVars,
                        bus_pending, sigint_seen>>
       /\ terminated => UNCHANGED vars
       /\ (~sigint_seen /\ sigint_seen') =>
            /\ ~terminated'
            /\ UNCHANGED <<pc, exit_code, loop, timerVars, gstVars, ctlVars, fpsVars>>]_vars

\* The process was killed in the middle of a rebuild, after an interrupt had
\* been recorded: the pipeline is still alive, its pads are still held and
\* the pad release the firing was about to do never runs.
C24_Witness ==
    /\ terminated
    /\ sigint_seen
    /\ pc = "sm_release"
    /\ pipeline # 0
    /\ graphs[pipeline].alive
    /\ tee_req_pad_udp \in Outstanding
    /\ tee_req_pad_fps \in Outstanding

-----------------------------------------------------------------------------
\* C25 - Transitions are strictly serialized: in every state at most one
\* state timer exists (while a firing is in its rebuild it is the one being
\* dispatched); a firing starts only from the idle loop, never inside a
\* firing; and a state timer is armed only by main before the loop runs and
\* by the step in which a firing returns.
C25_TransitionsSerialized ==
    [][/\ Cardinality(StateTimers) <= 1
       /\ Cardinality({s \in sources' : s.cb = "state"}) <= 1
       /\ InRebuild => /\ dispatching # 0
                       /\ \A s \in StateTimers : s.id = dispatching
                       /\ state_tick' = state_tick
                       /\ UNCHANGED <<sources, state_timer_id>> \/ FiringReturns
       /\ state_tick' # state_tick =>
            /\ pc = "loop"
            /\ dispatching = 0
            /\ \E s \in StateTimers : s.id = state_timer_id
       /\ {s \in sources' : s.cb = "state"} # StateTimers =>
            pc = "loop_new" \/ FiringReturns]_vars

\* A firing is in its rebuild, the pads released and the pipeline about to be
\* unreffed: the timer being dispatched is the only state timer and no other
\* has been armed.
C25_Witness ==
    /\ pc = "sm_unref"
    /\ state_tick >= 3
    /\ dispatching # 0
    /\ Cardinality(StateTimers) = 1
    /\ \A s \in StateTimers : s.id = dispatching /\ s.id = state_timer_id

-----------------------------------------------------------------------------
\* Firings that have started, counted by what they leave behind: every
\* firing that returned armed one state timer (the ids 1 and 2 are main's
\* sampler and first state timer), and one more firing is under way during a
\* rebuild.
FiringsStarted ==
    IF pc \in {"main", "create", "loop_new"} \/ ~loop THEN 0
    ELSE (next_source_id - 3) + (IF InRebuild THEN 1 ELSE 0)

\* A step in which the loop dispatches the state timer: state_machine_cb is
\* entered (and either returns in the same step or goes into its rebuild).
FiringStarts ==
    /\ pc = "loop"
    /\ \/ pc' \in {"sm_release", "sm_unref"}
       \/ pc' = "loop" /\ state_timer_id' # state_timer_id

\* C26 - state_tick counts the firings started: it is 0 until the first
\* firing and equal to the number of firings started in every state; the
\* step that starts a firing adds exactly one, no other step changes it
\* (a rebuild, the sampler and the exit sequence included), so it never
\* decreases and never repeats a value between firings.
C26_TickCountsFirings ==
    [][/\ state_tick = FiringsStarted
       /\ state_tick' = FiringsStarted'
       /\ FiringStarts => state_tick' = state_tick + 1
       /\ ~FiringStarts => state_tick' = state_tick
       /\ InRebuild => state_tick' = state_tick /\ state_tick >= 1
       /\ state_tick' >= state_tick]_vars

\* The firing after a rebuild has returned: the fourth firing in 3-phase
\* mode, with one pipeline destroyed, has made the tick 4.
C26_Witness ==
    /\ phase_mode = 3
    /\ pc = "loop"
    /\ phase = "PLAYING"
    /\ Cardinality(Destroyed) = 1
    /\ state_tick = 4
    /\ FiringsStarted = 4

-----------------------------------------------------------------------------
\* Cycles completed: firings that made the transition into Null and
\* returned (every third firing in 3-phase mode, every fourth in 4-phase).
CompletedCycles == CompletedFirings \div phase_mode

\* A firing that does not go into Null starts (and returns in the same
\* step).
PlainFiring == FiringStarts /\ pc' = "loop"

\* C27 - Rebuild only on the transition into Null: a firing into Playing,
\* Paused or Ready leaves the pipeline variable, the recorded pads and every
\* pipeline and pad object's existence unchanged; pipelines are constructed
\* or destroyed only by main's construction, a rebuild and the exit
\* sequence; and while the loop runs, after k completed cycles k + 1
\* pipelines have been constructed and k destroyed.
C27_RebuildOnlyIntoNull ==
    [][/\ PlainFiring =>
            /\ UNCHANGED <<pipeline, tee_req_pad_udp, tee_req_pad_fps, pads>>
            /\ Len(graphs') = Len(graphs)
            /\ \A g \in GraphIds : graphs'[g].alive = graphs[g].alive
       /\ (Len(graphs') # Len(graphs) \/ \E g \in GraphIds : graphs'[g].alive # graphs[g].alive)
            => pc \in {"create", "sm_unref", "sm_create", "exit_unref"}
       /\ pc = "loop" =>
            /\ Len(graphs) = CompletedCycles + 1
            /\ Cardinality(Destroyed) = CompletedCycles]_vars

-----------------------------------------------------------------------------
\* Pipeline g is destroyed in this step.
Destroys(g) == graphs[g].alive /\ ~graphs'[g].alive

\* A recorded pad of pipeline g is released in this step.
ReleasesPadOf(g) == \E p \in PadsOf(g) : pads'[p].unrefs > pads[p].unrefs

\* C28 - Stop before teardown: the firing that goes into a rebuild makes its
\* gst_element_set_state(NULL) request (and the wait after it) in its first
\* step, with no pad released and no pipeline destroyed yet; whenever a
\* recorded pad of a pipeline is released or a pipeline is destroyed, the
\* last state requested of that pipeline is NULL and it is in NULL, never
\* Playing, Paused or Ready.
C28_StopBeforeTeardown ==
    [][/\ (pc = "loop" /\ pc' \in {"sm_release", "sm_unref"}) =>
            /\ set_state_calls' = set_state_calls + 1
            /\ current_stage' = "NULL"
            /\ pipeline # 0 => graphs'[pipeline].target = "NULL"
            /\ UNCHANGED <<pads, pipeline>>
            /\ \A g \in GraphIds : ~Destroys(g)
       /\ \A g \in GraphIds :
            (Destroys(g) \/ ReleasesPadOf(g)) =>
                /\ graphs[g].target = "NULL"
                /\ graphs[g].cur = "NULL"
       /\ (InRebuild /\ pipeline # 0) => graphs[pipeline].target = "NULL"]_vars

\* A rebuild is about to unref a pipeline that had been playing and paused:
\* its last requested state is NULL and its pads have been released.
C28_Witness ==
    /\ pc = "sm_unref"
    /\ pipeline # 0
    /\ graphs[pipeline].alive
    /\ graphs[pipeline].target = "NULL"
    /\ graphs[pipeline].cur = "NULL"
    /\ current_stage = "NULL"
    /\ set_state_calls >= 3
    /\ PadsOf(pipeline) \cap Outstanding = {}

-----------------------------------------------------------------------------
\* Handoffs no sample has counted yet.
Uncounted == handoffs - last_frame_count

\* A step of fps_log_cb.
SampleStep == (pc = "loop" /\ pc' = "fps_store") \/ (pc = "fps_store" /\ pc' = "loop")

\* C29 - Sampling is read-only on the counter: no step of fps_log_cb changes
\* frame_count; a handoff that arrives between the sample's load and its
\* store changes nothing of the sample and stays uncounted; the sample's
\* diff plus the handoffs still uncounted after it equal the handoffs
\* uncounted before it, so every handoff is reported by exactly one sample.
C29_SamplingIsReadOnly ==
    [][/\ SampleStep => UNCHANGED <<frame_count, handoffs>>
       /\ (pc = "fps_store" /\ frame_count' # frame_count) =>
            /\ pc' = "fps_store"
            /\ UNCHANGED <<fps_now, last_frame_count, fps_diff>>
            /\ Uncounted' = Uncounted + 1
       /\ (pc = "fps_store" /\ pc' = "loop") =>
            /\ fps_diff' + Uncounted' = Uncounted
            /\ Uncounted' = handoffs - fps_now
            /\ fps_diff' >= 0
       /\ last_frame_count <= fps_now
       /\ fps_now <= frame_count
       /\ Uncounted >= 0]_vars

\* A handoff has arrived between the load and the store of a sample that
\* has something to report: it is in frame_count and not in the loaded
\* value.
C29_Witness ==
    /\ pc = "fps_store"
    /\ last_frame_count < fps_now
    /\ frame_count = fps_now + 1
    /\ handoffs = frame_count

-----------------------------------------------------------------------------
\* The step is one on_handoff call on the streaming thread.
HandoffStep == handoffs' # handoffs

\* C30 - on_handoff changes only the counter: a handoff step adds one to
\* frame_count and leaves phase, the stage label, state_tick, the pipeline
\* variable, the pipelines, the pads and the recorded pads, the timers, the
\* loop, the control thread's position and the sampler's loaded value,
\* snapshot and diff unchanged; phase and state_tick change only in steps of
\* the control thread, which leave frame_count unchanged.
C30_HandoffChangesOnlyCounter ==
    [][/\ HandoffStep =>
            /\ frame_count' = frame_count + 1
            /\ UNCHANGED <<phase, current_stage, state_tick, set_state_calls>>
            /\ UNCHANGED <<pipeline, graphs, pads, tee_req_pad_udp, tee_req_pad_fps>>
            /\ UNCHANGED <<last_frame_count, fps_now, fps_diff>>
            /\ UNCHANGED <<pc, exit_code, loopVars, timerVars, bus_pending>>
       /\ frame_count' # frame_count => HandoffStep
       /\ (phase' # phase \/ state_tick' # state_tick) =>
            /\ pc \in {"loop", "sm_create"}
            /\ ~HandoffStep
            /\ UNCHANGED frame_count]_vars

\* Handoffs have been counted while the first pipeline plays: the phase, the
\* tick, the pipeline, both recorded pads and the sampler's snapshot are
\* what the first firing left.
C30_Witness ==
    /\ pc = "loop"
    /\ handoffs = MaxFrames
    /\ frame_count = MaxFrames
    /\ last_frame_count = 0
    /\ fps_now = 0
    /\ phase = "PLAYING"
    /\ state_tick = 1
    /\ pipeline = 1
    /\ Alive = {1}
    /\ build = "v110" => (tee_req_pad_udp \in Outstanding /\ tee_req_pad_fps \in Outstanding)

-----------------------------------------------------------------------------
\* C31 - The sample label names the phase: whenever the control thread is
\* not inside a rebuild (before the loop, idle in it, inside a sample, in
\* the exit sequence), current_stage is "NULL" exactly when phase is
\* NULL_STATE, "PLAYING" when PLAYING, "PAUSED" when PAUSED and "READY" when
\* READY, the first state after a rebuild included.
C31_LabelNamesPhase ==
    ~InRebuild =>
        /\ (current_stage = "NULL") <=> (phase = "NULL_STATE")
        /\ (current_stage = "PLAYING") <=> (phase = "PLAYING")
        /\ (current_stage = "PAUSED") <=> (phase = "PAUSED")
        /\ (current_stage = "READY") <=> (phase = "READY")

\* A sample is being taken right after a rebuild returned: the phase is
\* Null again and the label says NULL.
C31_Witness ==
    /\ pc = "fps_store"
    /\ state_tick >= 3
    /\ Destroyed # {}
    /\ phase = "NULL_STATE"
    /\ current_stage = "NULL"

-----------------------------------------------------------------------------
\* C32 - Sampler bookkeeping: in every state last_frame_count is at most
\* frame_count and at most the value a sample in progress has loaded, so no
\* diff is negative (the unsigned subtraction does not wrap), and the diffs
\* reported so far add up to last_frame_count, the value the latest sample
\* stored (0 before the first).
C32_SnapshotBookkeeping ==
    /\ last_frame_count <= frame_count
    /\ pc = "fps_store" => (last_frame_count <= fps_now /\ fps_now <= frame_count)
    /\ fps_diff >= 0
    /\ fps_total = last_frame_count

\* Two samples have each reported one frame: their diffs add up to the
\* snapshot the second one stored.
C32_Witness ==
    /\ pc = "loop"
    /\ fps_diff = 1
    /\ fps_total = 2
    /\ last_frame_count = 2
    /\ frame_count = 2

-----------------------------------------------------------------------------
\* The step calls gst_element_set_state on the pipeline variable (a firing
\* or main's exit).
SetsState == set_state_calls' # set_state_calls

\* The step calls gst_object_unref on the pipeline variable (a rebuild or
\* main's exit).
UnrefsPipeline == pc \in {"sm_unref", "exit_unref"} /\ pc' # pc

\* C33 - A live pipeline at every use: each step that calls
\* gst_element_set_state or gst_object_unref on the pipeline variable finds
\* it naming a live pipeline (not null, not destroyed), and each recorded
\* pad that is released belongs to a live pipeline.
C33_LivePipelineAtUse ==
    [][/\ (SetsState \/ UnrefsPipeline) =>
            /\ pipeline # 0
            /\ graphs[pipeline].alive
       /\ \A g \in GraphIds : ReleasesPadOf(g) => graphs[g].alive]_vars

-----------------------------------------------------------------------------
RECURSIVE WatchesUpTo(_)
WatchesUpTo(n) == IF n = 0 THEN 0 ELSE WatchesUpTo(n - 1) + graphs[n].watches

\* Bus watches registered with the main context: one per gst_bus_add_watch
\* call, since nothing removes a watch and bus_cb always returns TRUE.
Subscriptions == WatchesUpTo(Len(graphs))

\* C34 - Bus watches do not accumulate: in the build that adds a watch, the
\* number of registered watches equals the number of live pipelines (at
\* most one) in every state, and no destroyed pipeline still has a watch.
C34_WatchesDoNotAccumulate ==
    build = "v110" =>
        /\ Subscriptions = Cardinality(Alive)
        /\ Subscriptions <= 1
        /\ \A g \in Destroyed : graphs[g].watches = 0

-----------------------------------------------------------------------------
\* The recorded handle h is empty, or it is the pad requested for this
\* branch while the pipeline the variable now names was constructed, that
\* pipeline is alive, and the pad is linked and not released.
RecordedOfCurrent(h, branch) ==
    h # 0 =>
        /\ h \in PadIds
        /\ pipeline # 0
        /\ pads[h].owner = pipeline
        /\ graphs[pipeline].alive
        /\ pads[h].branch = branch
        /\ pads[h].linked
        /\ h \in Outstanding

\* C35 - Recorded handles belong to the live pipeline: in every state
\* tee_req_pad_udp and tee_req_pad_fps are each null or the unreleased pad
\* of their branch on the current, live pipeline; no pad of a destroyed
\* pipeline is recorded and the two handles never name the same pad.
C35_HandlesOfLivePipeline ==
    /\ RecordedOfCurrent(tee_req_pad_udp, "udp")
    /\ RecordedOfCurrent(tee_req_pad_fps, "fps")
    /\ \A g \in Destroyed : {tee_req_pad_udp, tee_req_pad_fps} \cap PadsOf(g) = {}
    /\ tee_req_pad_udp # 0 => tee_req_pad_udp # tee_req_pad_fps

\* After a rebuild both handles name pads of the new pipeline while the
\* destroyed one's pads have been released.
C35_Witness ==
    /\ pc = "loop"
    /\ Cardinality(Destroyed) = 1
    /\ pipeline = 2
    /\ graphs[2].alive
    /\ tee_req_pad_udp # 0
    /\ tee_req_pad_fps # 0
    /\ pads[tee_req_pad_udp].owner = 2
    /\ pads[tee_req_pad_fps].owner = 2
    /\ PadsOf(1) \cap Outstanding = {}

====
